---- MODULE Spec2Model ----
(***************************************************************************)
(* Model of the Aave V3 raw-events decoder:                                *)
(*   src/src/events_decoder/events_decoder.py  (AaveV3RawEventsDecoder)    *)
(*   src/src/events_decoder/token_transfer_decoder.py                      *)
(*                                          (AaveV3TokenTransferDecoder)   *)
(*                                                                         *)
(* A Python str of hex characters is a sequence of one-character strings,  *)
(* a Python dict is a function whose DOMAIN is its key set, a Python list  *)
(* is a sequence, and a pandas DataFrame is a record [columns, rows].      *)
(* A Python int parsed from hex is unbounded; it is kept exactly, as its   *)
(* canonical lower-case hexadecimal numeral without leading zeros.         *)
(***************************************************************************)
EXTENDS Integers, Sequences, FiniteSets, Bags, TLC

VARIABLES
    contract_abi,              \* self.contract_abi
    events_hex_signatures,     \* self.events_hex_signatures
    all_encoded_events_dict,   \* self.all_encoded_events_dict
    all_decoded_events_dict,   \* self.all_decoded_events_dict
    all_active_users,          \* self.all_active_users
    raw_events,                \* the raw entries loaded for classify_raw_events
    call,                      \* the last method call and how it ended
    transfer_events,           \* argument of the last decode_transfer_events call
    all_decoded_events,        \* AaveV3TokenTransferDecoder.all_decoded_events
    transfer_users,            \* AaveV3TokenTransferDecoder.all_active_users
    encoded_event,             \* argument of the last direct _decode_* call
    decoded_event              \* what that call returned or raised

vars == <<contract_abi, events_hex_signatures, all_encoded_events_dict,
          all_decoded_events_dict, all_active_users, raw_events, call,
          transfer_events, all_decoded_events, transfer_users,
          encoded_event, decoded_event>>

poolVars == <<contract_abi, events_hex_signatures, all_encoded_events_dict,
              all_decoded_events_dict, all_active_users, raw_events>>
transferVars == <<transfer_events, all_decoded_events, transfer_users>>
unitVars == <<encoded_event, decoded_event>>

----------------------------------------------------------------------------
(* Python strings, slices and conversions                                  *)

Rep(c, n) == [i \in 1..n |-> c]

Min(a, b) == IF a <= b THEN a ELSE b

\* s[a:b] for 0 <= a <= b
Slice(s, a, b) ==
    IF a >= Min(b, Len(s)) THEN <<>> ELSE SubSeq(s, a + 1, Min(b, Len(s)))

\* s[a:] for a >= 0
SliceFrom(s, a) == IF a >= Len(s) THEN <<>> ELSE SubSeq(s, a + 1, Len(s))

\* s[-n:] for n > 0
SliceLast(s, n) == IF Len(s) <= n THEN s ELSE SubSeq(s, Len(s) - n + 1, Len(s))

DecDigits == {"0", "1", "2", "3", "4", "5", "6", "7", "8", "9"}
LowerHex == {"a", "b", "c", "d", "e", "f"}
UpperHex == {"A", "B", "C", "D", "E", "F"}
HexChars == DecDigits \cup LowerHex \cup UpperHex

\* str.lower() on one character
Lower(c) ==
    CASE c = "A" -> "a" [] c = "B" -> "b" [] c = "C" -> "c"
      [] c = "D" -> "d" [] c = "E" -> "e" [] c = "F" -> "f"
      [] c = "X" -> "x" [] OTHER -> c

LowerStr(s) == [i \in 1..Len(s) |-> Lower(s[i])]

IsHexStr(s) == \A i \in 1..Len(s) : s[i] \in HexChars

HasHexPrefix(s) == Len(s) >= 2 /\ s[1] = "0" /\ Lower(s[2]) = "x"

Remove0x(s) == IF HasHexPrefix(s) THEN SliceFrom(s, 2) ELSE s

\* outcome of a Python expression: a value, or the exception it raises
Ok(v) == [ok |-> TRUE, val |-> v]
Raise(e) == [ok |-> FALSE, err |-> e]

RECURSIVE StripZeros(_)
StripZeros(s) ==
    IF Len(s) > 1 /\ s[1] = "0" THEN StripZeros(Tail(s)) ELSE s

\* int(s, 16): the optional 0x prefix is accepted, an empty or non-hex
\* literal raises ValueError; the value is the canonical numeral
PyInt16(s) ==
    LET body == Remove0x(s)
    IN  IF body = <<>> \/ ~IsHexStr(body)
        THEN Raise("ValueError")
        ELSE Ok(StripZeros(LowerStr(body)))

\* Web3.to_checksum_address(s): s must be 40 hex characters after an
\* optional 0x prefix, else ValueError.  The EIP-55 casing is a function of
\* the lower-case address alone, so the 0x-prefixed lower-case form stands
\* for the checksummed string.
ToChecksumAddress(s) ==
    LET body == Remove0x(s)
    IN  IF Len(body) = 40 /\ IsHexStr(body)
        THEN Ok(<<"0", "x">> \o LowerStr(body))
        ELSE Raise("ValueError")

\* seq[i] on a Python list (0-based i)
Index(seq, i) == IF i < Len(seq) THEN Ok(seq[i + 1]) ELSE Raise("IndexError")

AllOk(rs) == \A i \in 1..Len(rs) : rs[i].ok

\* the exception of the first statement that raises
FirstRaise(rs) ==
    rs[CHOOSE i \in 1..Len(rs) : ~rs[i].ok /\ \A j \in 1..(i - 1) : rs[j].ok]

----------------------------------------------------------------------------
(* The per-kind decode functions                                           *)

\* Web3.to_checksum_address(ev["topics"][i][-40:])
TopicAddress(ev, i) ==
    LET topic == Index(ev.topics, i)
    IN  IF topic.ok THEN ToChecksumAddress(SliceLast(topic.val, 40)) ELSE topic

\* int(ev["topics"][i], 16)
TopicInt(ev, i) ==
    LET topic == Index(ev.topics, i)
    IN  IF topic.ok THEN PyInt16(topic.val) ELSE topic

\* ev["data"][2:]
EventData(ev) == SliceFrom(ev.data, 2)

\* Web3.to_checksum_address(event_data[:64][-40:])
FirstWordAddress(event_data) ==
    ToChecksumAddress(SliceLast(Slice(event_data, 0, 64), 40))

\* the decoded dict when every statement succeeded, else the first exception
Returns(stmts, rec) == IF AllOk(stmts) THEN Ok(rec) ELSE FirstRaise(stmts)

_decode_borrow(ev) ==
    LET reserve == TopicAddress(ev, 1)
        onBehalfOf == TopicAddress(ev, 2)
        referralCode == TopicInt(ev, 3)
        event_data == EventData(ev)
        user == FirstWordAddress(event_data)
        amount == PyInt16(Slice(event_data, 64, 64 + 64))
        interestRateMode == PyInt16(Slice(event_data, 2 * 64, 3 * 64))
        borrowRate == PyInt16(SliceFrom(event_data, 3 * 64))
    IN  Returns(<<reserve, onBehalfOf, referralCode, user, amount,
                  interestRateMode, borrowRate>>,
                [event |-> "Borrow", blockNumber |-> ev.blockNumber,
                 reserve |-> reserve.val, onBehalfOf |-> onBehalfOf.val,
                 referralCode |-> referralCode.val, user |-> user.val,
                 amount |-> amount.val,
                 interestRateMode |-> interestRateMode.val,
                 borrowRate |-> borrowRate.val])

\* amount read from the first data word
_decode_supply_FirstWord(ev) ==
    LET reserve == TopicAddress(ev, 1)
        onBehalfOf == TopicAddress(ev, 2)
        referralCode == TopicInt(ev, 3)
        event_data == EventData(ev)
        user == FirstWordAddress(event_data)
        amount == PyInt16(Slice(event_data, 0, 64))
    IN  Returns(<<reserve, onBehalfOf, referralCode, user, amount>>,
                [event |-> "Supply", blockNumber |-> ev.blockNumber,
                 reserve |-> reserve.val, onBehalfOf |-> onBehalfOf.val,
                 referralCode |-> referralCode.val, user |-> user.val,
                 amount |-> amount.val])

_decode_supply(ev) ==
    LET reserve == TopicAddress(ev, 1)
        onBehalfOf == TopicAddress(ev, 2)
        referralCode == TopicInt(ev, 3)
        event_data == EventData(ev)
        user == FirstWordAddress(event_data)
        amount == PyInt16(Slice(event_data, 64, 64 + 64))
    IN  Returns(<<reserve, onBehalfOf, referralCode, user, amount>>,
                [event |-> "Supply", blockNumber |-> ev.blockNumber,
                 reserve |-> reserve.val, onBehalfOf |-> onBehalfOf.val,
                 referralCode |-> referralCode.val, user |-> user.val,
                 amount |-> amount.val])

_decode_repay(ev) ==
    LET reserve == TopicAddress(ev, 1)
        user == TopicAddress(ev, 2)
        repayer == TopicAddress(ev, 3)
        event_data == EventData(ev)
        amount == PyInt16(Slice(event_data, 0, 64))
        useATokens == PyInt16(Slice(event_data, 64, 2 * 64))
    IN  Returns(<<reserve, user, repayer, amount, useATokens>>,
                [event |-> "Repay", blockNumber |-> ev.blockNumber,
                 reserve |-> reserve.val, user |-> user.val,
                 repayer |-> repayer.val, amount |-> amount.val,
                 useATokens |-> useATokens.val])

_decode_withdraw(ev) ==
    LET reserve == TopicAddress(ev, 1)
        user == TopicAddress(ev, 2)
        to == TopicAddress(ev, 3)
        event_data == EventData(ev)
        amount == PyInt16(Slice(event_data, 0, 64))
    IN  Returns(<<reserve, user, to, amount>>,
                [event |-> "Withdraw", blockNumber |-> ev.blockNumber,
                 reserve |-> reserve.val, user |-> user.val, to |-> to.val,
                 amount |-> amount.val])

_decode_liquidation(ev) ==
    LET collateralAsset == TopicAddress(ev, 1)
        debtAsset == TopicAddress(ev, 2)
        user == TopicAddress(ev, 3)
        event_data == EventData(ev)
        debtToCover == PyInt16(Slice(event_data, 0, 64))
        liquidatedCollateralAmount == PyInt16(Slice(event_data, 64, 2 * 64))
        liquidator ==
            ToChecksumAddress(<<"0", "x">>
                \o SliceLast(Slice(event_data, 2 * 64, 3 * 64), 40))
        receiveAToken == PyInt16(Slice(event_data, 3 * 64, 4 * 64))
    IN  Returns(<<collateralAsset, debtAsset, user, debtToCover,
                  liquidatedCollateralAmount, liquidator, receiveAToken>>,
                [event |-> "LiquidationCall", blockNumber |-> ev.blockNumber,
                 collateralAsset |-> collateralAsset.val,
                 debtAsset |-> debtAsset.val, user |-> user.val,
                 debtToCover |-> debtToCover.val,
                 liquidatedCollateralAmount |-> liquidatedCollateralAmount.val,
                 liquidator |-> liquidator.val,
                 receiveAToken |-> receiveAToken.val])

_decode_flashloan(ev) ==
    LET target == TopicAddress(ev, 1)
        asset == TopicAddress(ev, 2)
        referralCode == TopicInt(ev, 3)
        event_data == EventData(ev)
        initiator == FirstWordAddress(event_data)
        amount == PyInt16(Slice(event_data, 64, 2 * 64))
        interestRateMode == PyInt16(Slice(event_data, 2 * 64, 3 * 64))
        premium == PyInt16(Slice(event_data, 3 * 64, 4 * 64))
    IN  Returns(<<target, asset, referralCode, initiator, amount,
                  interestRateMode, premium>>,
                [event |-> "FlashLoan", blockNumber |-> ev.blockNumber,
                 target |-> target.val, asset |-> asset.val,
                 referralCode |-> referralCode.val,
                 initiator |-> initiator.val, amount |-> amount.val,
                 interestRateMode |-> interestRateMode.val,
                 premium |-> premium.val])

_decode_emode(ev) ==
    LET user == TopicAddress(ev, 1)
        event_data == EventData(ev)
        categoryId == PyInt16(Slice(event_data, 0, 64))
    IN  Returns(<<user, categoryId>>,
                [event |-> "UserEModeSet", blockNumber |-> ev.blockNumber,
                 user |-> user.val, categoryId |-> categoryId.val])

_decode_reserve_used_collateral_enabled(ev) ==
    LET reserve == TopicAddress(ev, 1)
        user == TopicAddress(ev, 2)
    IN  Returns(<<reserve, user>>,
                [event |-> "ReserveUsedAsCollateralEnabled",
                 blockNumber |-> ev.blockNumber,
                 reserve |-> reserve.val, user |-> user.val])

_decode_reserve_used_collateral_disabled(ev) ==
    LET reserve == TopicAddress(ev, 1)
        user == TopicAddress(ev, 2)
    IN  Returns(<<reserve, user>>,
                [event |-> "ReserveUsedAsCollateralDisabled",
                 blockNumber |-> ev.blockNumber,
                 reserve |-> reserve.val, user |-> user.val])

_decode_back_unbacked(ev) ==
    LET reserve == TopicAddress(ev, 1)
        backer == TopicAddress(ev, 2)
        event_data == EventData(ev)
        amount == PyInt16(Slice(event_data, 0, 64))
        fee == PyInt16(SliceFrom(event_data, 64))
    IN  Returns(<<reserve, backer, amount, fee>>,
                [event |-> "BackUnbacked", blockNumber |-> ev.blockNumber,
                 reserve |-> reserve.val, backer |-> backer.val,
                 amount |-> amount.val, fee |-> fee.val])

_decode_mint_unbacked(ev) ==
    LET reserve == TopicAddress(ev, 1)
        onBehalfOf == TopicAddress(ev, 2)
        referralCode == TopicAddress(ev, 3)
        event_data == EventData(ev)
        user == FirstWordAddress(event_data)
        amount == PyInt16(SliceFrom(event_data, 64))
    IN  Returns(<<reserve, onBehalfOf, referralCode, user, amount>>,
                [event |-> "MintUnbacked", blockNumber |-> ev.blockNumber,
                 reserve |-> reserve.val, onBehalfOf |-> onBehalfOf.val,
                 referralCode |-> referralCode.val, user |-> user.val,
                 amount |-> amount.val])

_decode_minted_to_treasury(ev) ==
    LET reserve == TopicAddress(ev, 1)
        event_data == EventData(ev)
        amountMinted == PyInt16(Slice(event_data, 0, 64))
    IN  Returns(<<reserve, amountMinted>>,
                [event |-> "MintedToTreasury", blockNumber |-> ev.blockNumber,
                 reserve |-> reserve.val, amountMinted |-> amountMinted.val])

_decode_isolation_debt_updated(ev) ==
    LET asset == TopicAddress(ev, 1)
        event_data == EventData(ev)
        totalDebt == PyInt16(Slice(event_data, 0, 64))
    IN  Returns(<<asset, totalDebt>>,
                [event |-> "IsolationModeTotalDebtUpdated",
                 blockNumber |-> ev.blockNumber,
                 asset |-> asset.val, totalDebt |-> totalDebt.val])

_decode_reserve_data_updated(ev) ==
    LET reserve == TopicAddress(ev, 1)
        event_data == EventData(ev)
        liquidityRate == PyInt16(Slice(event_data, 0, 64))
        stableBorrowRate == PyInt16(Slice(event_data, 64, 2 * 64))
        variableBorrowRate == PyInt16(Slice(event_data, 2 * 64, 3 * 64))
        liquidityIndex == PyInt16(Slice(event_data, 3 * 64, 4 * 64))
        variableBorrowIndex == PyInt16(Slice(event_data, 4 * 64, 5 * 64))
    IN  Returns(<<reserve, liquidityRate, stableBorrowRate,
                  variableBorrowRate, liquidityIndex, variableBorrowIndex>>,
                [event |-> "ReserveDataUpdated",
                 blockNumber |-> ev.blockNumber, reserve |-> reserve.val,
                 liquidityRate |-> liquidityRate.val,
                 stableBorrowRate |-> stableBorrowRate.val,
                 variableBorrowRate |-> variableBorrowRate.val,
                 liquidityIndex |-> liquidityIndex.val,
                 variableBorrowIndex |-> variableBorrowIndex.val])

\* the keys of decode_functions, in the order of the dict literal
DecodeKinds ==
    <<"Borrow", "Supply", "Repay", "Withdraw", "LiquidationCall", "FlashLoan",
      "UserEModeSet", "ReserveUsedAsCollateralEnabled",
      "ReserveUsedAsCollateralDisabled", "BackUnbacked", "MintUnbacked",
      "MintedToTreasury", "IsolationModeTotalDebtUpdated",
      "ReserveDataUpdated">>

DecodeKindSet == {DecodeKinds[i] : i \in 1..Len(DecodeKinds)}

\* decode_functions[event_name](ev)
decode_functions(event_name, ev) ==
    CASE event_name = "Borrow" -> _decode_borrow(ev)
      [] event_name = "Supply" -> _decode_supply(ev)
      [] event_name = "Repay" -> _decode_repay(ev)
      [] event_name = "Withdraw" -> _decode_withdraw(ev)
      [] event_name = "LiquidationCall" -> _decode_liquidation(ev)
      [] event_name = "FlashLoan" -> _decode_flashloan(ev)
      [] event_name = "UserEModeSet" -> _decode_emode(ev)
      [] event_name = "ReserveUsedAsCollateralEnabled" ->
            _decode_reserve_used_collateral_enabled(ev)
      [] event_name = "ReserveUsedAsCollateralDisabled" ->
            _decode_reserve_used_collateral_disabled(ev)
      [] event_name = "BackUnbacked" -> _decode_back_unbacked(ev)
      [] event_name = "MintUnbacked" -> _decode_mint_unbacked(ev)
      [] event_name = "MintedToTreasury" -> _decode_minted_to_treasury(ev)
      [] event_name = "IsolationModeTotalDebtUpdated" ->
            _decode_isolation_debt_updated(ev)
      [] event_name = "ReserveDataUpdated" -> _decode_reserve_data_updated(ev)

----------------------------------------------------------------------------
(* The contract ABI handed to the constructor, and the signature index     *)

Inp(t, n, ix) == [type |-> t, name |-> n, indexed |-> ix]
Event(n, ins) == [type |-> "event", name |-> n, inputs |-> ins]

\* the 14 pool events the decode functions are written for
PoolEvents ==
    << Event("Borrow",
          << Inp("address", "reserve", TRUE), Inp("address", "user", FALSE),
             Inp("address", "onBehalfOf", TRUE),
             Inp("uint256", "amount", FALSE),
             Inp("uint8", "interestRateMode", FALSE),
             Inp("uint256", "borrowRate", FALSE),
             Inp("uint16", "referralCode", TRUE) >>),
       Event("Supply",
          << Inp("address", "reserve", TRUE), Inp("address", "user", FALSE),
             Inp("address", "onBehalfOf", TRUE),
             Inp("uint256", "amount", FALSE),
             Inp("uint16", "referralCode", TRUE) >>),
       Event("Repay",
          << Inp("address", "reserve", TRUE), Inp("address", "user", TRUE),
             Inp("address", "repayer", TRUE),
             Inp("uint256", "amount", FALSE),
             Inp("bool", "useATokens", FALSE) >>),
       Event("Withdraw",
          << Inp("address", "reserve", TRUE), Inp("address", "user", TRUE),
             Inp("address", "to", TRUE), Inp("uint256", "amount", FALSE) >>),
       Event("LiquidationCall",
          << Inp("address", "collateralAsset", TRUE),
             Inp("address", "debtAsset", TRUE), Inp("address", "user", TRUE),
             Inp("uint256", "debtToCover", FALSE),
             Inp("uint256", "liquidatedCollateralAmount", FALSE),
             Inp("address", "liquidator", FALSE),
             Inp("bool", "receiveAToken", FALSE) >>),
       Event("FlashLoan",
          << Inp("address", "target", TRUE),
             Inp("address", "initiator", FALSE),
             Inp("address", "asset", TRUE), Inp("uint256", "amount", FALSE),
             Inp("uint8", "interestRateMode", FALSE),
             Inp("uint256", "premium", FALSE),
             Inp("uint16", "referralCode", TRUE) >>),
       Event("UserEModeSet",
          << Inp("address", "user", TRUE),
             Inp("uint8", "categoryId", FALSE) >>),
       Event("ReserveUsedAsCollateralEnabled",
          << Inp("address", "reserve", TRUE), Inp("address", "user", TRUE) >>),
       Event("ReserveUsedAsCollateralDisabled",
          << Inp("address", "reserve", TRUE), Inp("address", "user", TRUE) >>),
       Event("BackUnbacked",
          << Inp("address", "reserve", TRUE), Inp("address", "backer", TRUE),
             Inp("uint256", "amount", FALSE), Inp("uint256", "fee", FALSE) >>),
       Event("MintUnbacked",
          << Inp("address", "reserve", TRUE), Inp("address", "user", FALSE),
             Inp("address", "onBehalfOf", TRUE),
             Inp("uint256", "amount", FALSE),
             Inp("uint16", "referralCode", TRUE) >>),
       Event("MintedToTreasury",
          << Inp("address", "reserve", TRUE),
             Inp("uint256", "amountMinted", FALSE) >>),
       Event("IsolationModeTotalDebtUpdated",
          << Inp("address", "asset", TRUE),
             Inp("uint256", "totalDebt", FALSE) >>),
       Event("ReserveDataUpdated",
          << Inp("address", "reserve", TRUE),
             Inp("uint256", "liquidityRate", FALSE),
             Inp("uint256", "stableBorrowRate", FALSE),
             Inp("uint256", "variableBorrowRate", FALSE),
             Inp("uint256", "liquidityIndex", FALSE),
             Inp("uint256", "variableBorrowIndex", FALSE) >>) >>

\* an ABI entry that is not an event
SupplyFunction ==
    [type |-> "function", name |-> "supply",
     inputs |-> << Inp("address", "asset", FALSE),
                   Inp("uint256", "amount", FALSE) >>]

\* a pool event no decode function is written for
SwapBorrowRateMode ==
    Event("SwapBorrowRateMode",
          << Inp("address", "reserve", TRUE), Inp("address", "user", TRUE),
             Inp("uint8", "interestRateMode", FALSE) >>)

\* a second schema with the name and types of Supply and another layout
SupplyOtherLayout ==
    Event("Supply",
          << Inp("address", "reserve", TRUE), Inp("address", "user", TRUE),
             Inp("address", "onBehalfOf", TRUE),
             Inp("uint256", "amount", FALSE),
             Inp("uint16", "referralCode", FALSE) >>)

AbiEvents == PoolEvents \o <<SwapBorrowRateMode, SupplyOtherLayout>>

Without(seq, n) == SelectSeq(seq, LAMBDA a : a.name # n)

\* the ABIs a decoder is constructed with
Catalogs ==
    { <<SupplyFunction>> \o PoolEvents,
      PoolEvents \o <<SwapBorrowRateMode>>,
      Without(PoolEvents, "MintedToTreasury"),
      PoolEvents \o <<SupplyOtherLayout>> }

\* f"{event_name}({','.join(types)})": the name, then the types in order
EventSignature(abi) ==
    <<abi.name>> \o [i \in 1..Len(abi.inputs) |-> abi.inputs[i].type]

HexDigits ==
    <<"0", "1", "2", "3", "4", "5", "6", "7",
      "8", "9", "a", "b", "c", "d", "e", "f">>

\* a 32-byte word as 64 hex characters: 12 high bytes, 20 low bytes
Word(hi, lo) ==
    Rep("0", 24 - Len(hi)) \o hi \o Rep("0", 40 - Len(lo)) \o lo

\* Web3.keccak(text=...): a digest that differs for different texts
Keccak(text) ==
    LET id == CHOOSE i \in 1..Len(AbiEvents) :
                  /\ EventSignature(AbiEvents[i]) = text
                  /\ \A j \in 1..(i - 1) : EventSignature(AbiEvents[j]) # text
    IN  Word(<<"c", "a", "f", "e">>, <<HexDigits[id]>>)
\* Web3.to_hex(digest)
ToHex(digest) == <<"0", "x">> \o LowerStr(digest)

\* hex_signatures_dict.update({key: value})
DictUpdate(d, key, value) ==
    [k \in (DOMAIN d) \cup {key} |-> IF k = key THEN value ELSE d[k]]

EmptyDict == <<>>

\* the loop of get_events_signatures_as_hex over the ABI entries
RECURSIVE HexSignaturesDict(_, _)
HexSignaturesDict(abis, hex_signatures_dict) ==
    IF abis = <<>> THEN hex_signatures_dict
    ELSE LET abi == Head(abis)
         IN  IF abi.type = "event"
             THEN HexSignaturesDict(Tail(abis),
                      DictUpdate(hex_signatures_dict,
                                 ToHex(Keccak(EventSignature(abi))), abi.name))
             ELSE HexSignaturesDict(Tail(abis), hex_signatures_dict)

DictValues(d) == {d[k] : k \in DOMAIN d}

----------------------------------------------------------------------------
(* Raw log entries                                                         *)

MaxTopics == 4
MaxDataWords == 6

\* characters a truncated payload may carry after its last whole word
RaggedTails == {0, 1, 45}

\* payload words: clean (12 zero high bytes) or with high bytes set and
\* upper-case digits
PayloadWord(j, dirty) ==
    IF dirty THEN Word(<<"1", HexDigits[j + 1]>>, <<"A", "b", HexDigits[j + 1]>>)
    ELSE Word(<<>>, <<HexDigits[j + 1]>>)

RECURSIVE Concat(_)
Concat(ss) == IF ss = <<>> THEN <<>> ELSE Head(ss) \o Concat(Tail(ss))

\* the parsed entry of a kind: ntopics topics, nwords whole data words and
\* tail further characters
LogEntry(sig, ntopics, nwords, tail, dirty) ==
    [blockNumber |-> 100 + ntopics,
     topics |-> [i \in 1..ntopics |->
                    IF i = 1 THEN sig
                    ELSE <<"0", "x">> \o PayloadWord(i - 1, dirty)],
     data |-> <<"0", "x">>
                 \o Concat([k \in 1..nwords |-> PayloadWord(k + 3, dirty)])
                 \o Rep("9", tail)]

AbiOf(kind) ==
    PoolEvents[CHOOSE i \in 1..Len(PoolEvents) : PoolEvents[i].name = kind]

KindHash(kind) == ToHex(Keccak(EventSignature(AbiOf(kind))))

\* the entries handed to the decode functions one at a time
UnitEntries(kind) ==
    { LogEntry(KindHash(kind), nt, nw, tail, dirty) :
        nt \in 1..MaxTopics, nw \in 0..MaxDataWords,
        tail \in RaggedTails, dirty \in BOOLEAN }

\* a raw entry as it arrives: a JSON string.  ser tells apart two strings
\* that differ only in their spelling (white space, key order)
RawEntry(ser, ev) ==
    [ser |-> ser, blockNumber |-> ev.blockNumber, topics |-> ev.topics,
     data |-> ev.data]

\* json.loads(encoded_event): the dict the string spells
JsonLoads(raw) ==
    [blockNumber |-> raw.blockNumber, topics |-> raw.topics, data |-> raw.data]

SupplyLog == LogEntry(KindHash("Supply"), 4, 2, 0, FALSE)
WithdrawLog == LogEntry(KindHash("Withdraw"), 4, 1, 0, FALSE)
SwapLog ==
    LogEntry(ToHex(Keccak(EventSignature(SwapBorrowRateMode))), 3, 1, 0, FALSE)
\* a Supply entry cut one character after its first data word
SupplyCutLog == LogEntry(KindHash("Supply"), 4, 1, 1, FALSE)
\* a Supply entry without its last topic
SupplyShortLog == LogEntry(KindHash("Supply"), 3, 2, 0, FALSE)

\* the raw entries a batch is made of
RawPool ==
    { RawEntry(0, SupplyLog), RawEntry(1, SupplyLog), RawEntry(0, WithdrawLog),
      RawEntry(0, SwapLog), RawEntry(0, SupplyCutLog),
      RawEntry(0, SupplyShortLog) }

MaxBatch == 2

SeqsUpTo(S, n) == UNION {[1..k -> S] : k \in 0..n}

Range(seq) == {seq[i] : i \in 1..Len(seq)}

\* the batches of raw entries a run loads
Batches == SeqsUpTo(RawPool, MaxBatch)

\* list(set(xs)): the elements once each, in an order Python does not fix
Orderings(S) ==
    {seq \in [1..Cardinality(S) -> S] :
        \A i, j \in 1..Cardinality(S) : i # j => seq[i] # seq[j]}

\* the list taken as it is, duplicates included
UniqueRawEvents_NoDedup(raw) == {raw}

\* unique_raw_events = list(set(raw_events)): what it may come out as
UniqueRawEvents(raw) == Orderings(Range(raw))

\* an entry without a matching key filed under a bucket of its own
ClassifyOne_FilesUnknown(ev, sigs, encoded_dict) ==
    LET sig == ev.topics[1]
        event_name == IF sig \in DOMAIN sigs THEN sigs[sig] ELSE "Unknown"
    IN  [name \in DOMAIN encoded_dict \cup {event_name} |->
            IF name = event_name
            THEN Append(IF name \in DOMAIN encoded_dict
                        THEN encoded_dict[name] ELSE <<>>, ev)
            ELSE encoded_dict[name]]

\* the inner loop over events_hex_signatures.items(): the entry is appended
\* to the bucket of the one key that equals topics[0], if any ("continue"
\* only moves on to the next key)
ClassifyOne(ev, sigs, encoded_dict) ==
    LET sig == ev.topics[1]
    IN  IF sig \in DOMAIN sigs
        THEN [encoded_dict EXCEPT ![sigs[sig]] = Append(@, ev)]
        ELSE encoded_dict

\* the classification loop over unique_raw_events
RECURSIVE ClassifyLoop(_, _, _)
ClassifyLoop(unique_raw_events, sigs, encoded_dict) ==
    IF unique_raw_events = <<>> THEN encoded_dict
    ELSE ClassifyLoop(Tail(unique_raw_events), sigs,
             ClassifyOne(JsonLoads(Head(unique_raw_events)), sigs,
                         encoded_dict))

\* buckets keyed by the signature hashes
EmptyBuckets_ByHash(sigs) == [event_hex_signature \in DOMAIN sigs |-> <<>>]

\* {event_name: [] for event_name in self.events_hex_signatures.values()}
EmptyBuckets(sigs) == [event_name \in DictValues(sigs) |-> <<>>]

\* pd.json_normalize(events_list) on flat dicts
JsonNormalize(events_list) ==
    [columns |-> UNION {DOMAIN events_list[i] : i \in 1..Len(events_list)},
     rows |-> events_list]

\* the table of one kind from the outcomes of its decode calls, or the first
\* exception among them
EventsFrame(events_list) ==
    IF AllOk(events_list)
    THEN Ok(JsonNormalize([i \in 1..Len(events_list) |-> events_list[i].val]))
    ELSE FirstRaise(events_list)

\* one turn of the loop of decode_raw_events over the decode functions
DecodeKind(encoded_dict, event_name) ==
    IF event_name \notin DOMAIN encoded_dict THEN Raise("KeyError")
    ELSE EventsFrame([i \in 1..Len(encoded_dict[event_name]) |->
             decode_functions(event_name, encoded_dict[event_name][i])])

\* the turns of the loop of decode_raw_events, in the order of decode_functions
DecodeTurns(encoded_dict) ==
    [i \in 1..Len(DecodeKinds) |-> DecodeKind(encoded_dict, DecodeKinds[i])]

\* a store that keeps only the kinds that had entries
DecodedDict_SkipEmpty(turns) ==
    IF AllOk(turns)
    THEN Ok([event_name \in
                 {DecodeKinds[i] : i \in {j \in 1..Len(DecodeKinds) :
                                             turns[j].val.rows # <<>>}} |->
                turns[CHOOSE i \in 1..Len(DecodeKinds) :
                          DecodeKinds[i] = event_name].val])
    ELSE FirstRaise(turns)

\* all_decoded_events_dict as the loop fills it, one table per turn, or the
\* first exception on the way
DecodedDict(turns) ==
    IF AllOk(turns)
    THEN Ok([event_name \in DecodeKindSet |->
                turns[CHOOSE i \in 1..Len(DecodeKinds) :
                          DecodeKinds[i] = event_name].val])
    ELSE FirstRaise(turns)

\* the dict decode_raw_events builds, or the first exception on its way
DecodeAll(encoded_dict) == DecodedDict(DecodeTurns(encoded_dict))

\* active_users_events, in the order of the dict literal
active_users_events ==
    << <<"Borrow", <<"onBehalfOf", "user">> >>,
       <<"Supply", <<"onBehalfOf", "user">> >>,
       <<"Repay", <<"user", "repayer">> >>,
       <<"Withdraw", <<"user", "to">> >>,
       <<"LiquidationCall", <<"user", "liquidator">> >>,
       <<"FlashLoan", <<"initiator", "target">> >>,
       <<"UserEModeSet", <<"user">> >>,
       <<"ReserveUsedAsCollateralEnabled", <<"user">> >>,
       <<"ReserveUsedAsCollateralDisabled", <<"user">> >>,
       <<"BackUnbacked", <<"backer">> >>,
       <<"MintUnbacked", <<"onBehalfOf", "user">> >> >>

\* df[colname].unique().tolist(), as the set the caller makes of it
ColumnValues(df, colname) == {df.rows[i][colname] : i \in 1..Len(df.rows)}

\* the column looked up whether or not the table has rows
ActiveUsersRaises_NoGuard(decoded_dict, event_name, colname) ==
    \/ event_name \notin DOMAIN decoded_dict
    \/ colname \notin decoded_dict[event_name].columns

\* the body of the loops of get_all_active_users raises KeyError: the kind
\* is no key of the store or, in a table with rows, the column is missing
ActiveUsersRaises(decoded_dict, event_name, colname) ==
    \/ event_name \notin DOMAIN decoded_dict
    \/ /\ Len(decoded_dict[event_name].rows) > 0
       /\ colname \notin decoded_dict[event_name].columns

\* the body of the loops of get_all_active_users for one column of one
\* table: the set all_active_users holds after it
ActiveUsersStep(df, colname, users) ==
    IF Len(df.rows) > 0 THEN users \cup ColumnValues(df, colname) ELSE users

\* the loops of get_all_active_users, from column c of pair k on
RECURSIVE ActiveUsersLoop(_, _, _, _)
ActiveUsersLoop(decoded_dict, k, c, users) ==
    IF k > Len(active_users_events) THEN users
    ELSE IF c > Len(active_users_events[k][2])
    THEN ActiveUsersLoop(decoded_dict, k + 1, 1, users)
    ELSE ActiveUsersLoop(decoded_dict, k, c + 1,
             ActiveUsersStep(decoded_dict[active_users_events[k][1]],
                             active_users_events[k][2][c], users))

\* the set get_all_active_users collects, or the exception on its way
ActiveUsers(decoded_dict) ==
    IF \E k \in 1..Len(active_users_events) :
           \E c \in 1..Len(active_users_events[k][2]) :
               ActiveUsersRaises(decoded_dict, active_users_events[k][1],
                                 active_users_events[k][2][c])
    THEN Raise("KeyError")
    ELSE Ok(ActiveUsersLoop(decoded_dict, 1, 1, {}))

----------------------------------------------------------------------------
(* The AToken transfer decoder                                             *)

\* "0x0000000000000000000000000000000000000000"
ZeroAddress == <<"0", "x">> \o Rep("0", 40)

_decode_transfer(ev) ==
    LET from_ == TopicAddress(ev, 1)
        to_ == TopicAddress(ev, 2)
        event_data == EventData(ev)
        amount == PyInt16(Slice(event_data, 0, 64))
    IN  Returns(<<from_, to_, amount>>,
                [blockNumber |-> ev.blockNumber, reserve |-> ev.reserve,
                 from |-> from_.val, to |-> to_.val, amount |-> amount.val])

\* eval(encoded_event): the dict the string spells
Eval(raw) ==
    [blockNumber |-> raw.blockNumber, reserve |-> raw.reserve,
     topics |-> raw.topics, data |-> raw.data]

\* the filter applied to the recipient
DropMints_To(transfers) ==
    [columns |-> transfers.columns,
     rows |-> SelectSeq(transfers.rows, LAMBDA row : row.to # ZeroAddress)]

\* transfers[transfers["from"] != "0x00...00"]
DropMints(transfers) ==
    [columns |-> transfers.columns,
     rows |-> SelectSeq(transfers.rows, LAMBDA row : row.from # ZeroAddress)]

\* the table decode_transfer_events stores, or the exception it raises
DecodeTransfers(all_encoded_events) ==
    LET decoded_events ==
            [i \in 1..Len(all_encoded_events) |->
                _decode_transfer(Eval(all_encoded_events[i]))]
    IN  IF ~AllOk(decoded_events) THEN FirstRaise(decoded_events)
        ELSE LET transfers ==
                     JsonNormalize([i \in 1..Len(decoded_events) |->
                                       decoded_events[i].val])
             IN  IF "from" \notin transfers.columns THEN Raise("KeyError")
                 ELSE Ok(DropMints(transfers))

\* DataFrame.drop_duplicates() on a one-column frame: first occurrences
RECURSIVE DropDuplicates(_)
DropDuplicates(xs) ==
    IF xs = <<>> THEN <<>>
    ELSE LET front == DropDuplicates(SubSeq(xs, 1, Len(xs) - 1))
             last == xs[Len(xs)]
         IN  IF last \in Range(front) THEN front ELSE Append(front, last)

Column(df, colname) == [i \in 1..Len(df.rows) |-> df.rows[i][colname]]

\* the frame get_all_token_transfer_users stores, or the exception it raises
TransferUsers(df) ==
    IF "from" \notin df.columns \/ "to" \notin df.columns THEN Raise("KeyError")
    ELSE LET from_ == Column(df, "from")
             to_ == Column(df, "to")
             users == DropDuplicates(from_ \o to_)
         IN  Ok([columns |-> {"active_user_address"},
                 rows |-> [i \in 1..Len(users) |->
                              [active_user_address |-> users[i]]]])

TransferHash == <<"0", "x">> \o Word(<<"d", "d", "f", "2", "5", "2", "a", "d">>, <<>>)

\* a raw BalanceTransfer entry as it arrives, with the reserve the caller adds
TransferEntry(ser, from_word, to_word, ntopics, nwords) ==
    [ser |-> ser, blockNumber |-> 200 + nwords, reserve |-> "reserve",
     topics |-> SubSeq(<<TransferHash, <<"0", "x">> \o from_word,
                         <<"0", "x">> \o to_word>>, 1, ntopics),
     data |-> <<"0", "x">>
                 \o Concat([k \in 1..nwords |-> PayloadWord(k + 3, FALSE)])]

TransferPool ==
    { TransferEntry(0, PayloadWord(1, TRUE), PayloadWord(2, TRUE), 3, 2),
      TransferEntry(0, PayloadWord(2, TRUE), PayloadWord(1, TRUE), 3, 1),
      TransferEntry(0, PayloadWord(1, TRUE), PayloadWord(1, TRUE), 3, 1),
      TransferEntry(0, Word(<<>>, <<>>), PayloadWord(1, TRUE), 3, 2),
      TransferEntry(0, Word(<<"1">>, <<>>), PayloadWord(3, FALSE), 3, 1),
      TransferEntry(0, PayloadWord(1, TRUE), PayloadWord(2, TRUE), 2, 1) }

MaxTransfers == 2

\* the batches of transfer entries a run loads
TransferBatches == SeqsUpTo(TransferPool, MaxTransfers)

EmptyFrame == [columns |-> {}, rows |-> <<>>]

----------------------------------------------------------------------------
(* Calls                                                                   *)

NotCalled == [op |-> "__init__", status |-> "ok"]

NoEvent ==
    [kind |-> "", ev |-> [blockNumber |-> 0, topics |-> <<>>, data |-> <<>>]]

Init ==
    /\ contract_abi \in Catalogs
    /\ events_hex_signatures = EmptyDict
    /\ all_encoded_events_dict = EmptyDict
    /\ all_decoded_events_dict = EmptyDict
    /\ all_active_users = <<>>
    /\ raw_events \in Batches
    /\ call = NotCalled
    /\ transfer_events = <<>>
    /\ all_decoded_events = EmptyFrame
    /\ transfer_users = EmptyFrame
    /\ encoded_event = NoEvent
    /\ decoded_event = Raise("NotCalled")

get_events_signatures_as_hex ==
    /\ events_hex_signatures' = HexSignaturesDict(contract_abi, EmptyDict)
    /\ call' = [op |-> "get_events_signatures_as_hex", status |-> "ok"]
    /\ UNCHANGED <<contract_abi, all_encoded_events_dict,
                   all_decoded_events_dict, all_active_users, raw_events,
                   transferVars, unitVars>>

classify_raw_events ==
    \E unique_raw_events \in UniqueRawEvents(raw_events) :
        /\ all_encoded_events_dict' =
               ClassifyLoop(unique_raw_events, events_hex_signatures,
                            EmptyBuckets(events_hex_signatures))
        /\ call' = [op |-> "classify_raw_events", status |-> "ok"]
        /\ UNCHANGED <<contract_abi, events_hex_signatures,
                       all_decoded_events_dict, all_active_users, raw_events,
                       transferVars, unitVars>>

decode_raw_events ==
    \E decoded \in {DecodeAll(all_encoded_events_dict)} :
        /\ all_decoded_events_dict' =
               IF decoded.ok THEN decoded.val ELSE all_decoded_events_dict
        /\ call' = [op |-> "decode_raw_events",
                    status |-> IF decoded.ok THEN "ok" ELSE decoded.err]
        /\ UNCHANGED <<contract_abi, events_hex_signatures,
                       all_encoded_events_dict, all_active_users, raw_events,
                       transferVars, unitVars>>

get_all_active_users ==
    LET users == ActiveUsers(all_decoded_events_dict)
    IN  /\ IF users.ok
           THEN \E order \in Orderings(users.val) : all_active_users' = order
           ELSE all_active_users' = all_active_users
        /\ call' = [op |-> "get_all_active_users",
                    status |-> IF users.ok THEN "ok" ELSE users.err]
        /\ UNCHANGED <<contract_abi, events_hex_signatures,
                       all_encoded_events_dict, all_decoded_events_dict,
                       raw_events, transferVars, unitVars>>

Next ==
    \/ get_events_signatures_as_hex
    \/ classify_raw_events
    \/ decode_raw_events
    \/ get_all_active_users

Spec == Init /\ [][Next]_vars

\* one decode function applied to the entry at hand, as the loop of
\* decode_raw_events applies it
DecodeEvent ==
    /\ call.op = "__init__"
    /\ encoded_event # NoEvent
    /\ decoded_event' = decode_functions(encoded_event.kind, encoded_event.ev)
    /\ call' = [op |-> "decode", status |->
                  IF decoded_event'.ok THEN "ok" ELSE decoded_event'.err]
    /\ UNCHANGED <<poolVars, transferVars, encoded_event>>

InitUnit ==
    /\ contract_abi = <<SupplyFunction>> \o PoolEvents
    /\ events_hex_signatures = EmptyDict
    /\ all_encoded_events_dict = EmptyDict
    /\ all_decoded_events_dict = EmptyDict
    /\ all_active_users = <<>>
    /\ raw_events = <<>>
    /\ call = NotCalled
    /\ transfer_events = <<>>
    /\ all_decoded_events = EmptyFrame
    /\ transfer_users = EmptyFrame
    /\ \E kind \in DecodeKindSet :
           \E ev \in UnitEntries(kind) :
               encoded_event = [kind |-> kind, ev |-> ev]
    /\ decoded_event = Raise("NotCalled")

NextUnit == DecodeEvent

SpecUnit == InitUnit /\ [][NextUnit]_vars
decode_transfer_events ==
    LET transfers == DecodeTransfers(transfer_events)
    IN  /\ all_decoded_events' =
               IF transfers.ok THEN transfers.val ELSE all_decoded_events
        /\ call' = [op |-> "decode_transfer_events",
                    status |-> IF transfers.ok THEN "ok" ELSE transfers.err]
        /\ UNCHANGED <<poolVars, unitVars, transfer_events, transfer_users>>

get_all_token_transfer_users ==
    LET all_users == TransferUsers(all_decoded_events)
    IN  /\ transfer_users' =
               IF all_users.ok THEN all_users.val ELSE transfer_users
        /\ call' = [op |-> "get_all_token_transfer_users",
                    status |-> IF all_users.ok THEN "ok" ELSE all_users.err]
        /\ UNCHANGED <<poolVars, unitVars, transfer_events, all_decoded_events>>

InitTransfer ==
    /\ contract_abi = <<SupplyFunction>> \o PoolEvents
    /\ events_hex_signatures = EmptyDict
    /\ all_encoded_events_dict = EmptyDict
    /\ all_decoded_events_dict = EmptyDict
    /\ all_active_users = <<>>
    /\ raw_events = <<>>
    /\ call = NotCalled
    /\ transfer_events \in TransferBatches
    /\ all_decoded_events = EmptyFrame
    /\ transfer_users = EmptyFrame
    /\ encoded_event = NoEvent
    /\ decoded_event = Raise("NotCalled")

NextTransfer == decode_transfer_events \/ get_all_token_transfer_users

SpecTransfer == InitTransfer /\ [][NextTransfer]_vars

\* the batches one decoder object is handed in a session, one call after
\* the other
SessionPool ==
    { RawEntry(0, SupplyLog), RawEntry(0, WithdrawLog),
      RawEntry(0, SupplyShortLog) }

SessionBatches == SeqsUpTo(SessionPool, MaxBatch)

\* the caller binds the list it passes to the next classify_raw_events
load_raw_events ==
    /\ \E batch \in SessionBatches : raw_events' = batch
    /\ UNCHANGED <<contract_abi, events_hex_signatures,
                   all_encoded_events_dict, all_decoded_events_dict,
                   all_active_users, call, transferVars, unitVars>>

InitSession ==
    /\ contract_abi = <<SupplyFunction>> \o PoolEvents
    /\ events_hex_signatures = EmptyDict
    /\ all_encoded_events_dict = EmptyDict
    /\ all_decoded_events_dict = EmptyDict
    /\ all_active_users = <<>>
    /\ raw_events = <<>>
    /\ call = NotCalled
    /\ transfer_events = <<>>
    /\ all_decoded_events = EmptyFrame
    /\ transfer_users = EmptyFrame
    /\ encoded_event = NoEvent
    /\ decoded_event = Raise("NotCalled")

NextSession ==
    \/ get_events_signatures_as_hex
    \/ load_raw_events
    \/ classify_raw_events
    \/ decode_raw_events

SpecSession == InitSession /\ [][NextSession]_vars
----------------------------------------------------------------------------
(* What the claims speak of                                                *)

IndexedInputs(abi) == SelectSeq(abi.inputs, LAMBDA in : in.indexed)
DataInputs(abi) == SelectSeq(abi.inputs, LAMBDA in : ~in.indexed)

UIntTypes == {"uint8", "uint16", "uint256"}

\* a 0x-prefixed 32-byte word read whole as a big-endian unsigned integer
UIntOfWord(word) == StripZeros(LowerStr(SubSeq(word, 3, 66)))

\* the address in the low 20 bytes of a 0x-prefixed 32-byte word
AddressOfWord(word) == <<"0", "x">> \o LowerStr(SubSeq(word, 27, 66))

\* the k-th (from 0) 32-byte word of a 0x-prefixed payload, 0x-prefixed
DataWord(data, k) == <<"0", "x">> \o SubSeq(data, 3 + 64 * k, 2 + 64 * (k + 1))

\* the entry is too short for its kind
ShortPayload(kind, ev) ==
    \/ Len(ev.topics) < 1 + Len(IndexedInputs(AbiOf(kind)))
    \/ Len(Remove0x(ev.data)) < 64 * Len(DataInputs(AbiOf(kind)))

BagOfSeq(seq) ==
    [x \in Range(seq) |-> Cardinality({i \in 1..Len(seq) : seq[i] = x})]

NoDuplicates(seq) == \A i, j \in 1..Len(seq) : i # j => seq[i] # seq[j]

\* the list with byte-identical duplicate entries removed
WithoutDuplicates(raw) == DropDuplicates(raw)

Classified == call.op = "classify_raw_events"
Decoded == call.op = "decode"

UnknownSignature(raw) ==
    JsonLoads(raw).topics[1] \notin DOMAIN events_hex_signatures

\* the buckets of a list classified in its own order
BucketsOf(raw) ==
    ClassifyLoop(raw, events_hex_signatures,
                 EmptyBuckets(events_hex_signatures))

SameBuckets(d1, d2) ==
    /\ DOMAIN d1 = DOMAIN d2
    /\ \A name \in DOMAIN d1 : BagOfSeq(d1[name]) = BagOfSeq(d2[name])

\* C1: a classified entry whose topics list or data is too short for its
\* kind makes its decode function fail, so no record comes out of it.
C1_ShortPayloadFails ==
    (Decoded /\ ShortPayload(encoded_event.kind, encoded_event.ev))
        => ~decoded_event.ok

\* C2: the buckets of a list are those of the list with its byte-identical
\* duplicates removed, each surviving entry filed once.
C2_DedupLaw ==
    Classified =>
        SameBuckets(all_encoded_events_dict,
                    BucketsOf(WithoutDuplicates(raw_events)))

C2_Witness ==
    /\ Classified
    /\ Len(raw_events) > Cardinality(Range(raw_events))
    /\ \E name \in DOMAIN all_encoded_events_dict :
           all_encoded_events_dict[name] # <<>>

\* C3: an entry whose topics[0] is no key of the signature index raises no
\* error, lands in no bucket and leaves the buckets of the others as they
\* are without it.
C3_UnknownSkipped ==
    Classified =>
        /\ call.status = "ok"
        /\ \A i \in 1..Len(raw_events) :
               UnknownSignature(raw_events[i]) =>
                   \A name \in DOMAIN all_encoded_events_dict :
                       JsonLoads(raw_events[i])
                           \notin Range(all_encoded_events_dict[name])
        /\ SameBuckets(all_encoded_events_dict,
               BucketsOf(WithoutDuplicates(
                   SelectSeq(raw_events, LAMBDA r : ~UnknownSignature(r)))))

C3_Witness ==
    /\ Classified
    /\ DOMAIN events_hex_signatures # {}
    /\ \E i \in 1..Len(raw_events) : UnknownSignature(raw_events[i])
    /\ \E name \in DOMAIN all_encoded_events_dict :
           all_encoded_events_dict[name] # <<>>

CatalogKinds ==
    {contract_abi[i].name :
        i \in {j \in 1..Len(contract_abi) : contract_abi[j].type = "event"}}

DecodedAll == call.op = "decode_raw_events" /\ call.status = "ok"

Collision(abis) ==
    \E i, j \in 1..Len(abis) :
        /\ abis[i].type = "event" /\ abis[j].type = "event"
        /\ abis[i] # abis[j]
        /\ Keccak(EventSignature(abis[i])) = Keccak(EventSignature(abis[j]))

\* C5: building the signature index of a catalog in which two distinct
\* schemas have the same signature hash fails.
C5_CollisionFails ==
    (call.op = "get_events_signatures_as_hex" /\ Collision(contract_abi))
        => call.status # "ok"

\* C6: the keys of the mapping classify_raw_events returns are the event
\* names of the signature index, whatever the list.
C6_EveryKindHasBucket ==
    Classified =>
        DOMAIN all_encoded_events_dict = DictValues(events_hex_signatures)

C6_Witness ==
    /\ Classified
    /\ raw_events = <<>>
    /\ Cardinality(DOMAIN all_encoded_events_dict) = 14

WellFormedSupply ==
    /\ encoded_event.kind = "Supply"
    /\ Len(encoded_event.ev.topics) = 4
    /\ Len(encoded_event.ev.data) = 2 + 2 * 64

\* C7: a well-formed Supply entry decodes to exactly the record of its
\* block number, the addresses in the low 20 bytes of topics 1 and 2 and of
\* data word 0, and topic 3 and data word 1 as unsigned integers.
C7_SupplyRecord ==
    (Decoded /\ WellFormedSupply) =>
        LET ev == encoded_event.ev
        IN  /\ decoded_event.ok
            /\ decoded_event.val =
                   [event |-> "Supply", blockNumber |-> ev.blockNumber,
                    reserve |-> AddressOfWord(ev.topics[2]),
                    onBehalfOf |-> AddressOfWord(ev.topics[3]),
                    referralCode |-> UIntOfWord(ev.topics[4]),
                    user |-> AddressOfWord(DataWord(ev.data, 0)),
                    amount |-> UIntOfWord(DataWord(ev.data, 1))]

C7_Witness ==
    /\ Decoded /\ WellFormedSupply
    /\ decoded_event.ok
    /\ Len(decoded_event.val.referralCode) > 40
    /\ decoded_event.val.user # AddressOfWord(encoded_event.ev.topics[2])

\* C8: no row of the decoded transfer table has the zero address as its
\* from, and the user set is the deduplicated union of the from and to of
\* the rows of the table.
C8_NoMintRows ==
    /\ \A i \in 1..Len(all_decoded_events.rows) :
           all_decoded_events.rows[i].from # ZeroAddress
    /\ (call.op = "get_all_token_transfer_users" /\ call.status = "ok") =>
           LET users == Column(transfer_users, "active_user_address")
           IN  /\ NoDuplicates(users)
               /\ Range(users) =
                      {all_decoded_events.rows[i].from :
                           i \in 1..Len(all_decoded_events.rows)}
                      \cup {all_decoded_events.rows[i].to :
                               i \in 1..Len(all_decoded_events.rows)}

IsMint(raw) == AddressOfWord(raw.topics[2]) = ZeroAddress

C8_Witness ==
    /\ call.op = "get_all_token_transfer_users" /\ call.status = "ok"
    /\ \E i \in 1..Len(transfer_events) :
           /\ IsMint(transfer_events[i])
           /\ \A j \in 1..Len(transfer_users.rows) :
                  transfer_users.rows[j].active_user_address
                      # AddressOfWord(transfer_events[i].topics[3])
    /\ Len(all_decoded_events.rows) = 1
    /\ Len(transfer_users.rows) = 2

\* the values of the mapped address fields over the store
MappedAddresses(decoded_dict) ==
    UNION { UNION { {decoded_dict[active_users_events[k][1]].rows[i]
                         [active_users_events[k][2][c]] :
                        i \in 1..Len(decoded_dict[active_users_events[k][1]].rows)} :
                    c \in 1..Len(active_users_events[k][2]) } :
            k \in 1..Len(active_users_events) }

\* C9: over a populated store in which some kinds have no record,
\* get_all_active_users ends without error with the set union of the
\* mapped address fields, each address once.
C9_ActiveUsers ==
    (call.op = "get_all_active_users" /\ DOMAIN all_decoded_events_dict # {})
        => /\ call.status = "ok"
           /\ NoDuplicates(all_active_users)
           /\ Range(all_active_users) = MappedAddresses(all_decoded_events_dict)
           /\ Len(all_active_users)
                  = Cardinality(MappedAddresses(all_decoded_events_dict))

C9_Witness ==
    /\ call.op = "get_all_active_users" /\ call.status = "ok"
    /\ all_decoded_events_dict["Borrow"].rows = <<>>
    /\ Len(all_decoded_events_dict["Supply"].rows) = 1
    /\ Len(all_decoded_events_dict["Withdraw"].rows) = 1
    /\ Len(all_active_users) = 3

\* C10: every indexed field a kind declares as an unsigned integer is
\* decoded as its whole topic word read as an unsigned integer.
C10_IndexedIntegers ==
    (Decoded /\ decoded_event.ok) =>
        LET indexed == IndexedInputs(AbiOf(encoded_event.kind))
        IN  \A i \in 1..Len(indexed) :
                indexed[i].type \in UIntTypes =>
                    decoded_event.val[indexed[i].name]
                        = UIntOfWord(encoded_event.ev.topics[i + 1])

\* the entry with its data payload cut after the words of the declared data
\* fields of its kind
DeclaredWordsOnly(kind, ev) ==
    [ev EXCEPT !.data =
        SubSeq(ev.data, 1, 2 + 64 * Len(DataInputs(AbiOf(kind))))]

\* the payload carries whole words, more of them than the kind declares
TrailingWords(kind, ev) ==
    /\ (Len(ev.data) - 2) % 64 = 0
    /\ Len(ev.data) - 2 > 64 * Len(DataInputs(AbiOf(kind)))

\* C11: the k-th declared data field is decoded from the k-th 32-byte word
\* alone: an entry that carries further words after those of the declared
\* data fields decodes to the same record as the entry without them.
C11_TrailingWordsIgnored ==
    (Decoded /\ TrailingWords(encoded_event.kind, encoded_event.ev)) =>
        decoded_event =
            decode_functions(encoded_event.kind,
                DeclaredWordsOnly(encoded_event.kind, encoded_event.ev))

\* the records stored under a kind
StoredRecords(decoded_dict, kind) ==
    IF kind \in DOMAIN decoded_dict THEN Range(decoded_dict[kind].rows) ELSE {}

\* C12: over the classify_raw_events and decode_raw_events calls on one
\* decoder object, every record stored under a kind before a call is still
\* stored under that kind after it.
C12_StoreAdditive ==
    [][\A kind \in DOMAIN all_decoded_events_dict :
           StoredRecords(all_decoded_events_dict, kind)
               \subseteq StoredRecords(all_decoded_events_dict', kind)]_vars

\* every entry of the batch has its two address topics and a data word
WellFormedTransfers(batch) ==
    \A i \in 1..Len(batch) :
        Len(batch[i].topics) >= 3 /\ Len(batch[i].data) >= 2 + 64

\* every entry of the batch (if any) is a mint
OnlyMints(batch) == \A i \in 1..Len(batch) : IsMint(batch[i])

\* C13: decode_transfer_events and then get_all_token_transfer_users
\* complete without an exception on every batch of well-formed entries, the
\* empty batch and a batch of mints alone included, and on those two they
\* leave an empty decoded table and an empty user set.
C13_TransfersComplete ==
    WellFormedTransfers(transfer_events) =>
        /\ call.op = "decode_transfer_events" =>
               /\ call.status = "ok"
               /\ OnlyMints(transfer_events) => all_decoded_events.rows = <<>>
        /\ (call.op = "get_all_token_transfer_users"
                /\ all_decoded_events # EmptyFrame) =>
               /\ call.status = "ok"
               /\ OnlyMints(transfer_events) => transfer_users.rows = <<>>
====
